---- MODULE Spec2Model ----
(***************************************************************************)
(* A model of GitHubEnvScraper (src/main.py): the scan pipeline of one     *)
(* scraper instance (scrape, save_results) against a nondeterministic      *)
(* remote API, and the pattern engine (apply_regex_patterns) as a pure     *)
(* function.  Strings are sequences of one-character strings.              *)
(***************************************************************************)
EXTENDS Integers, Sequences, FiniteSets, TLC

VARIABLES
    results,      \* self.results: the sequence of Findings
    pc,           \* position of the single thread of control
    patterns,     \* scrape(): the patterns argument
    all_repos,    \* scrape(): the local all_repos
    ri,           \* scrape(): position of repo_name in all_repos
    env_files,    \* scrape(): the local env_files
    fi,           \* scrape(): position of env_file in env_files
    file,         \* the output file: the sequence of strings written to it
    fileOpen,     \* whether save_results holds the output file open
    si,           \* save_results(): position of result in self.results
    savedLen,     \* history: Len(self.results) when the latest save_results began, -1 before
    calls,        \* history: number of scrape calls made on the instance
    results0,     \* history: self.results when the latest scrape call began
    requested,    \* history: the identifiers in all_repos before deduplication
    findLog,      \* history: the repositories find_env_files was called with
    visited,      \* history: the content fetches of the latest scrape call
    undelayed,    \* history: a content fetch was made and no sleep followed yet
    fetches,      \* history: number of content fetches made on the instance
    evContent,    \* pattern engine: the content argument
    evPatterns,   \* pattern engine: the patterns argument
    evOut,        \* pattern engine: the outcome of apply_regex_patterns
    evPc          \* pattern engine: "input" or "evaluated"

vars == <<results, pc, patterns, all_repos, ri, env_files, fi, file,
          fileOpen, si, savedLen, calls, results0, requested, findLog, visited,
          undelayed, fetches, evContent, evPatterns, evOut, evPc>>

scrapeVars == <<results, pc, patterns, all_repos, ri, env_files, fi,
                file, fileOpen, si, savedLen, calls, results0, requested, findLog,
                visited, undelayed, fetches>>

evalVars == <<evContent, evPatterns, evOut, evPc>>

(***************************************************************************)
(* Bounds of the model.                                                    *)
(***************************************************************************)
MaxCalls == 2        \* scrape calls made on one instance
MaxFetches == 2      \* content fetches over the life of the instance
MaxContentLen == 3   \* pattern engine: length of the content
MaxRules == 2        \* pattern engine: number of rules

(***************************************************************************)
(* Sequence helpers.                                                       *)
(***************************************************************************)
Range(s) == {s[i] : i \in 1..Len(s)}

Min(a, b) == IF a <= b THEN a ELSE b

SeqsUpTo(S, n) == UNION {[1..k -> S] : k \in 0..n}

Perms(S) == {s \in [1..Cardinality(S) -> S] : Range(s) = S}

RECURSIVE Flatten(_)
Flatten(ss) == IF ss = <<>> THEN <<>> ELSE Head(ss) \o Flatten(Tail(ss))

(***************************************************************************)
(* The pattern engine.  A pattern is a sequence of tokens: the literal     *)
(* characters and the group delimiters "(" and ")".                        *)
(***************************************************************************)
Chars == {"a", "A", "b"}

Lower(c) == IF c = "A" THEN "a" ELSE c

IsParen(t) == t \in {"(", ")"}

\* re.compile raises re.error on an unterminated group or an unbalanced ")"
RECURSIVE Depth(_, _)
Depth(p, k) == IF k = 0 THEN 0
               ELSE Depth(p, k - 1) + (IF p[k] = "(" THEN 1 ELSE IF p[k] = ")" THEN -1 ELSE 0)

Compiles(p) == /\ \A k \in 1..Len(p) : Depth(p, k) >= 0
               /\ Depth(p, Len(p)) = 0

Literal(p) == SelectSeq(p, LAMBDA t : ~IsParen(t))

NumGroups(p) == Cardinality({k \in 1..Len(p) : p[k] = "("})

\* re.IGNORECASE: the literal matches the content at position i whatever the case
MatchesAt(content, lit, i) ==
    /\ i + Len(lit) - 1 <= Len(content)
    /\ \A k \in 1..Len(lit) : Lower(content[i + k - 1]) = Lower(lit[k])

\* number of literal ("non-paren") tokens among the first k tokens of p
LitBefore(p, k) == Cardinality({j \in 1..k : ~IsParen(p[j])})

OpenAt(p) == CHOOSE k \in 1..Len(p) : p[k] = "("
CloseAt(p) == CHOOSE k \in 1..Len(p) : p[k] = ")"

\* what findall reports for one occurrence: the text of the group when the
\* pattern has one, the whole matched text when it has none
Captured(content, p, i) ==
    IF NumGroups(p) = 0
    THEN SubSeq(content, i, i + Len(Literal(p)) - 1)
    ELSE SubSeq(content, i + LitBefore(p, OpenAt(p)), i + LitBefore(p, CloseAt(p)) - 1)

\* regex.findall(content): the non-overlapping occurrences, scanning left to right
RECURSIVE FindAllFrom(_, _, _)
FindAllFrom(content, p, i) ==
    IF i > Len(content) THEN <<>>
    ELSE IF MatchesAt(content, Literal(p), i)
         THEN <<Captured(content, p, i)>> \o FindAllFrom(content, p, i + Len(Literal(p)))
         ELSE FindAllFrom(content, p, i + 1)

\* faulty variant: the occurrences in the reverse of the order of occurrence
FindAllReversed(content, p) ==
    [k \in 1..Len(FindAllFrom(content, p, 1)) |->
        FindAllFrom(content, p, 1)[Len(FindAllFrom(content, p, 1)) + 1 - k]]

FindAll(content, p) == FindAllFrom(content, p, 1)

\* faulty variant: no except clause, re.error leaves apply_regex_patterns
PatternMatchesUncaught(content, p) ==
    IF Compiles(p)
    THEN [raised |-> FALSE, found |-> [k \in 1..Len(FindAll(content, p)) |-> <<p, FindAll(content, p)[k]>>]]
    ELSE [raised |-> TRUE, found |-> <<>>]

\* the body of the for loop of apply_regex_patterns for one pattern: the
\* matches it appends; re.error is caught and the loop goes on
PatternMatches(content, p) ==
    IF Compiles(p)
    THEN [raised |-> FALSE, found |-> [k \in 1..Len(FindAll(content, p)) |-> <<p, FindAll(content, p)[k]>>]]
    ELSE [raised |-> FALSE, found |-> <<>>]

RECURSIVE ApplyFrom(_, _, _, _)
ApplyFrom(content, pats, k, matches) ==
    IF k > Len(pats) THEN [raised |-> FALSE, matches |-> matches]
    ELSE LET r == PatternMatches(content, pats[k])
         IN  IF r.raised THEN [raised |-> TRUE, matches |-> <<>>]
             ELSE ApplyFrom(content, pats, k + 1, matches \o r.found)

apply_regex_patterns(content, pats) == ApplyFrom(content, pats, 1, <<>>)

(***************************************************************************)
(* The remote API, as the responses requests.get can produce.              *)
(***************************************************************************)
RepoIds == {"a/b", "c/d"}

\* the paths one code search returns: the first k <= n, in any order; a path is
\* the number k of the file "dir<k>/.env"
FileLists(n) == UNION {Perms(1..k) : k \in 0..n}

Item(repo, path) == [path |-> path, url |-> <<"api", repo, path>>, html_url |-> <<"html", repo, path>>]

\* bodies of files, as bytes: "", "bA", "aAb", and "a" followed by the byte 0xFF
Bodies == {<<>>, <<98, 65>>, <<97, 65, 98>>, <<97, 255>>}

\* a response: requests.get raised (kind "transport"), the status is not 2xx
\* (kind "http"), or a JSON body; has_content says whether the body has a
\* 'content' field, padded whether base64.b64decode accepts its text, payload
\* is the bytes it then decodes to
TransportError == [kind |-> "transport"]
RemoteError == [kind |-> "http"]
NoContentField == [kind |-> "json", has_content |-> FALSE, padded |-> TRUE, payload |-> <<>>]
BadBase64 == [kind |-> "json", has_content |-> TRUE, padded |-> FALSE, payload |-> <<97>>]
Envelope(b) == [kind |-> "json", has_content |-> TRUE, padded |-> TRUE, payload |-> b]

FetchResponses == {TransportError, RemoteError, NoContentField, BadBase64} \cup {Envelope(b) : b \in Bodies}

\* bytes.decode('utf-8') on the bytes the model uses: ASCII maps to its
\* character, the byte 0xFF is in no UTF-8 sequence
Utf8Valid(bytes) == \A k \in 1..Len(bytes) : bytes[k] < 128

Chr(b) == IF b = 97 THEN "a" ELSE IF b = 65 THEN "A" ELSE IF b = 98 THEN "b" ELSE "?"

Utf8Decode(bytes) == [k \in 1..Len(bytes) |-> Chr(bytes[k])]

\* get_file_content: the except clause catches requests' RequestException only
get_file_content(resp) ==
    IF resp.kind \in {"transport", "http"} THEN [raised |-> "none", value |-> <<>>]
    ELSE IF ~resp.has_content THEN [raised |-> "KeyError", value |-> <<>>]
    ELSE IF ~resp.padded THEN [raised |-> "binascii.Error", value |-> <<>>]
    ELSE IF ~Utf8Valid(resp.payload) THEN [raised |-> "UnicodeDecodeError", value |-> <<>>]
    ELSE [raised |-> "none", value |-> Utf8Decode(resp.payload)]

\* what went wrong with a fetch, in the terms of the error taxonomy
Outcome(resp) ==
    IF resp.kind = "transport" THEN "transport"
    ELSE IF resp.kind = "http" THEN "remote"
    ELSE IF ~resp.has_content \/ ~resp.padded \/ ~Utf8Valid(resp.payload) THEN "decode"
    ELSE "ok"

\* find_env_files: the items of the code search, or nothing on a RequestException
find_env_files(resp) == IF resp.kind = "json" THEN resp.items ELSE <<>>

\* search_repos: the names of the first max_repos items, or nothing on a RequestException
search_repos(resp, limit) ==
    IF resp.kind = "json" THEN SubSeq(resp.items, 1, Min(limit, Len(resp.items))) ELSE <<>>

(***************************************************************************)
(* The rule sets the scan is run with.                                     *)
(***************************************************************************)
KeyValue == <<"a", "(", "b", ")">>
KeyOnly == <<"a">>
Unterminated == <<"(", "a">>
Unbalanced == <<"b", ")">>

RuleSets == {<<KeyValue, Unterminated, KeyOnly>>, <<KeyValue>>}

(***************************************************************************)
(* scrape.                                                                 *)
(***************************************************************************)
Finding(repo_name, env_file, matches) ==
    [repo |-> repo_name, file_path |-> env_file.path, file_url |-> env_file.html_url,
     matches |-> matches]

\* list(set(all_repos)): each element once, in an order the set decides
Dedupe(repos) == Perms(Range(repos))

\* the for loop over all_repos reaches position k: the next repository, or the return
ToRepo(k, repos) ==
    /\ ri' = IF k <= Len(repos) THEN k ELSE 0
    /\ pc' = IF k <= Len(repos) THEN "find" ELSE "returned"

InitScraper ==
    /\ results = <<>>
    /\ pc = "idle"
    /\ patterns = <<>>
    /\ all_repos = <<>>
    /\ ri = 0
    /\ env_files = <<>>
    /\ fi = 0
    /\ file = <<>>
    /\ fileOpen = FALSE
    /\ si = 0
    /\ savedLen = -1
    /\ calls = 0
    /\ results0 = <<>>
    /\ requested = {}
    /\ findLog = <<>>
    /\ visited = <<>>
    /\ undelayed = FALSE
    /\ fetches = 0

Init ==
    /\ InitScraper
    /\ evContent = <<>>
    /\ evPatterns = <<>>
    /\ evOut = [raised |-> FALSE, matches |-> <<>>]
    /\ evPc = "off"

\* the responses of the repository search: a failure, or the names of the items
SearchResponses ==
    {TransportError, RemoteError} \cup
    {[kind |-> "json", items |-> s] : s \in {<<>>, <<"a/b">>, <<"c/d", "a/b">>}}

\* the explicit repository lists scrape is called with: repeated identifiers included
ExplicitLists == {<<>>, <<"a/b">>, <<"a/b", "a/b">>, <<"c/d", "a/b">>}

\* the values of max_repos scrape is called with
Limits == {1, 2}

\* lines 154-160: all_repos before the duplicates are removed
Collected(repos, query, resp, limit) ==
    IF query THEN repos \o search_repos(resp, limit) ELSE repos

\* scrape(repos, patterns, search_query, max_repos), lines 154-167: up to the
\* start of the for loop over all_repos
ScrapeCall ==
    /\ pc = "idle"
    /\ calls < MaxCalls
    /\ \E repos \in ExplicitLists, pats \in RuleSets,
          query \in BOOLEAN, resp \in SearchResponses, limit \in Limits :
        LET collected == Collected(repos, query, resp, limit)
        IN  /\ \E order \in Dedupe(collected) : all_repos' = order /\ ToRepo(1, order)
            /\ requested' = Range(collected)
            /\ patterns' = pats
    /\ calls' = calls + 1
    /\ results0' = results
    /\ findLog' = <<>>
    /\ visited' = <<>>
    /\ UNCHANGED <<results, env_files, fi, file, fileOpen, si, savedLen, undelayed, fetches>>
    /\ UNCHANGED evalVars

\* lines 167-177: the code search of one repository
FindEnvFiles ==
    /\ pc = "find"
    /\ \E resp \in {TransportError, RemoteError} \cup
                   {[kind |-> "json", items |-> [k \in 1..Len(ps) |-> Item(all_repos[ri], ps[k])]] :
                        ps \in FileLists(MaxFetches - fetches)} :
        LET found == find_env_files(resp)
        IN  /\ findLog' = Append(findLog, [repo |-> all_repos[ri], files |-> found])
            /\ IF found = <<>>
               THEN /\ ToRepo(ri + 1, all_repos)
                    /\ UNCHANGED <<env_files, fi>>
               ELSE /\ env_files' = found
                    /\ fi' = 1
                    /\ pc' = "fetch"
                    /\ UNCHANGED ri
    /\ UNCHANGED <<results, patterns, all_repos, file, fileOpen, si, savedLen, calls,
                   results0, requested, visited, undelayed, fetches>>
    /\ UNCHANGED evalVars

\* faulty variant: no "if matches:", a Finding is appended for every non-empty content
EvaluateAlwaysAppending(repo_name, env_file, content, pats, res) ==
    IF content # <<>>
    THEN LET out == apply_regex_patterns(content, pats)
         IN  IF out.raised THEN [raised |-> TRUE, results |-> res]
             ELSE [raised |-> FALSE,
                   results |-> Append(res, Finding(repo_name, env_file, out.matches))]
    ELSE [raised |-> FALSE, results |-> res]

\* faulty variant: the Finding is inserted at the front of self.results
EvaluatePrepending(repo_name, env_file, content, pats, res) ==
    IF content # <<>>
    THEN LET out == apply_regex_patterns(content, pats)
         IN  IF out.raised THEN [raised |-> TRUE, results |-> res]
             ELSE IF out.matches # <<>>
                  THEN [raised |-> FALSE,
                        results |-> <<Finding(repo_name, env_file, out.matches)>> \o res]
                  ELSE [raised |-> FALSE, results |-> res]
    ELSE [raised |-> FALSE, results |-> res]

\* faulty variant: self.results is assigned the new Finding alone
EvaluateOverwriting(repo_name, env_file, content, pats, res) ==
    IF content # <<>>
    THEN LET out == apply_regex_patterns(content, pats)
         IN  IF out.raised THEN [raised |-> TRUE, results |-> res]
             ELSE IF out.matches # <<>>
                  THEN [raised |-> FALSE,
                        results |-> <<Finding(repo_name, env_file, out.matches)>>]
                  ELSE [raised |-> FALSE, results |-> res]
    ELSE [raised |-> FALSE, results |-> res]

\* lines 185-196: what scrape does with the content of one file
Evaluate(repo_name, env_file, content, pats, res) ==
    IF content # <<>>
    THEN LET out == apply_regex_patterns(content, pats)
         IN  IF out.raised THEN [raised |-> TRUE, results |-> res]
             ELSE IF out.matches # <<>>
                  THEN [raised |-> FALSE,
                        results |-> Append(res, Finding(repo_name, env_file, out.matches))]
                  ELSE [raised |-> FALSE, results |-> res]
    ELSE [raised |-> FALSE, results |-> res]

\* where control goes after the fetch of line 183 and lines 185-196: on to the
\* sleep of line 199, or out of scrape with the exception
AfterFetch(raised) == IF raised THEN "raised" ELSE "sleep"

\* lines 179-196: the fetch of one file, its evaluation and the append
FetchAndEvaluate ==
    /\ pc = "fetch"
    /\ \E resp \in FetchResponses :
        LET got == get_file_content(resp)
            ev == Evaluate(all_repos[ri], env_files[fi], got.value, patterns, results)
            raised == got.raised # "none" \/ ev.raised
        IN  /\ results' = IF raised THEN results ELSE ev.results
            /\ visited' = Append(visited, [repo |-> all_repos[ri], file |-> env_files[fi],
                                           outcome |-> Outcome(resp), raised |-> raised,
                                           content |-> got.value])
            /\ pc' = AfterFetch(raised)
            /\ ri' = IF raised THEN 0 ELSE ri
            /\ fi' = IF raised THEN 0 ELSE fi
            /\ env_files' = IF raised THEN <<>> ELSE env_files
    /\ undelayed' = TRUE
    /\ fetches' = fetches + 1
    /\ UNCHANGED <<patterns, all_repos, file, fileOpen, si, savedLen, calls, results0,
                   requested, findLog>>
    /\ UNCHANGED evalVars

\* line 199, and the advance of the two for loops
Sleep ==
    /\ pc = "sleep"
    /\ undelayed' = FALSE
    /\ IF fi < Len(env_files)
       THEN /\ fi' = fi + 1
            /\ pc' = "fetch"
            /\ UNCHANGED <<ri, env_files>>
       ELSE /\ fi' = 0
            /\ env_files' = <<>>
            /\ ToRepo(ri + 1, all_repos)
    /\ UNCHANGED <<results, patterns, all_repos, file, fileOpen, si, savedLen, calls,
                   results0, requested, findLog, visited, fetches>>
    /\ UNCHANGED evalVars

\* scrape is over, by its return or by the exception: its locals are gone
ScrapeEnd ==
    /\ pc \in {"returned", "raised"}
    /\ pc' = "idle"
    /\ patterns' = <<>>
    /\ all_repos' = <<>>
    /\ results0' = <<>>
    /\ requested' = {}
    /\ findLog' = <<>>
    /\ visited' = <<>>
    /\ UNCHANGED <<results, ri, env_files, fi, file, fileOpen, si, savedLen, calls, undelayed,
                   fetches>>
    /\ UNCHANGED evalVars

(***************************************************************************)
(* save_results.  The file is the sequence of the strings written to it.   *)
(***************************************************************************)
Title == <<"GitHub .env File Scan Results">>
Generated == <<"Generated", "timestamp">>
Delimiter == <<"=", "x80">>
Marker == <<"No matches found.">>

Header == <<Title, Generated, Delimiter>>

\* lines 223-226: the three writes for one (pattern, match)
MatchLines(m) == <<<<"Pattern", m[1]>>, <<"Match", m[2]>>, <<"">>>>

\* lines 218-228: the writes for one result
Block(result) ==
    <<<<"Repository", result.repo>>, <<"File", result.file_path>>,
      <<"URL", result.file_url>>, <<"-", "x40">>>>
    \o Flatten([k \in 1..Len(result.matches) |-> MatchLines(result.matches[k])])
    \o <<Delimiter>>

\* faulty variant: nothing is written for an empty self.results
EmptyReportSilent(f) == f

\* lines 213-214: what is written for an empty self.results
EmptyReport(f) == Append(f, Marker)

\* lines 208-211: open(output_file, 'w') and the header
SaveOpen ==
    /\ pc = "idle"
    /\ file' = Header
    /\ fileOpen' = TRUE
    /\ si' = 1
    /\ savedLen' = Len(results)
    /\ pc' = "save"
    /\ UNCHANGED <<results, patterns, all_repos, ri, env_files, fi, calls,
                   results0, requested, findLog, visited, undelayed, fetches>>
    /\ UNCHANGED evalVars

\* lines 213-215: the marker, and the return through the with statement
SaveMarker ==
    /\ pc = "save"
    /\ results = <<>>
    /\ file' = EmptyReport(file)
    /\ fileOpen' = FALSE
    /\ si' = 0
    /\ pc' = "idle"
    /\ UNCHANGED <<results, patterns, all_repos, ri, env_files, fi, savedLen, calls,
                   results0, requested, findLog, visited, undelayed, fetches>>
    /\ UNCHANGED evalVars

\* lines 217-228: one round of the for loop over self.results
SaveBlock ==
    /\ pc = "save"
    /\ results # <<>>
    /\ si <= Len(results)
    /\ file' = file \o Block(results[si])
    /\ si' = si + 1
    /\ UNCHANGED <<results, pc, patterns, all_repos, ri, env_files, fi, fileOpen,
                   savedLen, calls, results0, requested, findLog, visited, undelayed,
                   fetches>>
    /\ UNCHANGED evalVars

\* the end of the with statement, and line 230
SaveClose ==
    /\ pc = "save"
    /\ results # <<>>
    /\ si > Len(results)
    /\ fileOpen' = FALSE
    /\ si' = 0
    /\ pc' = "idle"
    /\ UNCHANGED <<results, patterns, all_repos, ri, env_files, fi, file, savedLen,
                   calls, results0, requested, findLog, visited, undelayed, fetches>>
    /\ UNCHANGED evalVars

Next ==
    \/ ScrapeCall
    \/ FindEnvFiles
    \/ FetchAndEvaluate
    \/ Sleep
    \/ ScrapeEnd
    \/ SaveOpen
    \/ SaveMarker
    \/ SaveBlock
    \/ SaveClose

Spec == Init /\ [][Next]_vars

(***************************************************************************)
(* The pattern engine on its own: apply_regex_patterns on every content    *)
(* and every rule list within the bounds.                                  *)
(***************************************************************************)
PatternSet == {KeyValue, KeyOnly, <<"b">>, Unterminated, Unbalanced}

InitEval ==
    /\ InitScraper
    /\ evContent \in SeqsUpTo(Chars, MaxContentLen)
    /\ evPatterns \in SeqsUpTo(PatternSet, MaxRules)
    /\ evOut = [raised |-> FALSE, matches |-> <<>>]
    /\ evPc = "input"

EvaluateCall ==
    /\ evPc = "input"
    /\ evOut' = apply_regex_patterns(evContent, evPatterns)
    /\ evPc' = "evaluated"
    /\ UNCHANGED <<evContent, evPatterns>>
    /\ UNCHANGED scrapeVars

NextEval == EvaluateCall

SpecEval == InitEval /\ [][NextEval]_vars

(***************************************************************************)
(* What the properties below read off the state.                           *)
(***************************************************************************)
IsPrefix(s, t) == Len(s) <= Len(t) /\ SubSeq(t, 1, Len(s)) = s

\* a scrape call is under way or has just ended: its history is in the state
InCall == pc \in {"find", "fetch", "sleep", "returned", "raised"}

\* the Match sequence apply_regex_patterns returned for a visited file: none
\* when the content is empty (it is not called) or the fetch raised
Returned(e) ==
    IF e.raised \/ e.content = <<>> THEN <<>>
    ELSE apply_regex_patterns(e.content, patterns).matches

RECURSIVE FindingsOf(_)
FindingsOf(vis) ==
    IF vis = <<>> THEN <<>>
    ELSE LET e == Head(vis)
         IN  (IF Returned(e) # <<>>
              THEN <<[repo |-> e.repo, file_path |-> e.file.path,
                      file_url |-> e.file.html_url, matches |-> Returned(e)]>>
              ELSE <<>>) \o FindingsOf(Tail(vis))

\* the candidate files of the call, in the order the repositories were searched
\* and the files returned
ProcessOrder ==
    Flatten([k \in 1..Len(findLog) |->
                [j \in 1..Len(findLog[k].files) |-> <<findLog[k].repo, findLog[k].files[j]>>]])

\* the position in ProcessOrder of the file a Finding is about
PosOf(f) == CHOOSE n \in 1..Len(ProcessOrder) :
                ProcessOrder[n][1] = f.repo /\ ProcessOrder[n][2].path = f.file_path

\* the Findings the latest scrape call has appended
NewFindings == SubSeq(results, Len(results0) + 1, Len(results))

\* the report read back: the (repository, file) of each block, and its
\* (pattern, match) pairs
RepoLines == SelectSeq(file, LAMBDA w : w[1] = "Repository")
FileLines == SelectSeq(file, LAMBDA w : w[1] = "File")

RECURSIVE ParseBlocks(_, _)
ParseBlocks(f, blocks) ==
    IF f = <<>> THEN blocks
    ELSE IF Head(f)[1] = "Repository" THEN ParseBlocks(Tail(f), Append(blocks, <<>>))
    ELSE IF Head(f)[1] = "Pattern" /\ Len(f) >= 2 /\ blocks # <<>>
         THEN ParseBlocks(Tail(Tail(f)),
                          [blocks EXCEPT ![Len(blocks)] = Append(@, <<Head(f)[2], f[2][2]>>)])
    ELSE ParseBlocks(Tail(f), blocks)

ReportMatches == ParseBlocks(file, <<>>)

\* a save_results has run to its end and no other is under way
ReportWritten == savedLen >= 0 /\ pc # "save"

(***************************************************************************)
(* C1.  During and at the end of a scrape call, the Findings it has added  *)
(* to results are exactly, in order, one Finding per visited file for      *)
(* which apply_regex_patterns returned at least one Match, holding the     *)
(* whole Match sequence returned; a file with no Match, with empty content *)
(* or with a failed fetch adds nothing.                                    *)
(***************************************************************************)
C1_FindingIffMatch == InCall => results = results0 \o FindingsOf(visited)

C1_Witness ==
    /\ pc = "returned"
    /\ \E i, j \in 1..Len(visited) :
        /\ Len(Returned(visited[i])) >= 1
        /\ visited[j].content # <<>>
        /\ Returned(visited[j]) = <<>>
    /\ Len(results) = Len(results0) + 1

(***************************************************************************)
(* C2.  Every failed fetch (transport error, non-2xx status, malformed     *)
(* body encoding) is turned into the empty string inside get_file_content  *)
(* and does not propagate to scrape.                                       *)
(***************************************************************************)
C2_ErrorsContained ==
    InCall => \A k \in 1..Len(visited) :
                 visited[k].outcome # "ok" => ~visited[k].raised /\ visited[k].content = <<>>

\* the part of C2 the code keeps: transport errors and non-2xx statuses
RequestErrorsContained ==
    InCall => \A k \in 1..Len(visited) :
                 visited[k].outcome \in {"transport", "remote"}
                     => ~visited[k].raised /\ visited[k].content = <<>>

(***************************************************************************)
(* C3.  When the fetch of one file failed with a transport error, the      *)
(* scrape call ends by returning, having searched every repository and     *)
(* fetched every candidate file, and the Findings it added are those of    *)
(* the other files.                                                        *)
(***************************************************************************)
C3_TransportErrorSkipped ==
    (pc \in {"returned", "raised"} /\ \E k \in 1..Len(visited) : visited[k].outcome = "transport")
        => /\ pc = "returned"
           /\ Len(findLog) = Len(all_repos)
           /\ Len(visited) = Len(ProcessOrder)
           /\ results = results0 \o
                  FindingsOf(SelectSeq(visited, LAMBDA e : e.outcome # "transport"))

\* the part of C3 the code keeps: the failed fetch itself ends in the sleep of
\* line 199 with nothing appended, and the loop goes on from there
TransportErrorGoesOn ==
    (pc \in {"sleep", "raised"} /\ visited # <<>> /\ visited[Len(visited)].outcome = "transport")
        => pc = "sleep"

(***************************************************************************)
(* C4.  The resolved repository list holds each identifier of the explicit *)
(* list and of the search result exactly once and nothing else, and a      *)
(* scrape call calls find_env_files exactly once for each of them.         *)
(***************************************************************************)
C4_EachRepositoryOnce ==
    pc \in {"returned", "raised"}
        => /\ Range(all_repos) = requested
           /\ \A i, j \in 1..Len(all_repos) : all_repos[i] = all_repos[j] => i = j
           /\ \A r \in requested : Cardinality({k \in 1..Len(findLog) : findLog[k].repo = r}) = 1

\* the part of C4 the code keeps: the resolved list, at most one call for each
\* identifier, and exactly one when scrape returns
ResolvedOnce ==
    InCall
        => /\ Range(all_repos) = requested
           /\ \A i, j \in 1..Len(all_repos) : all_repos[i] = all_repos[j] => i = j
           /\ \A r \in requested : Cardinality({k \in 1..Len(findLog) : findLog[k].repo = r}) <= 1
           /\ pc = "returned" =>
                \A r \in requested : Cardinality({k \in 1..Len(findLog) : findLog[k].repo = r}) = 1

(***************************************************************************)
(* C5.  The Matches of a Finding are grouped by rule in the order of the   *)
(* rule list and, within a rule, follow the order of occurrence in the     *)
(* content; the report holds the Matches of each Finding in the order the  *)
(* Finding holds them.                                                     *)
(***************************************************************************)
\* match m is an occurrence of rule r of pats at position p of the content
OccursAt(m, content, pats, r, p) ==
    /\ m[1] = pats[r]
    /\ Compiles(pats[r])
    /\ MatchesAt(content, Literal(pats[r]), p)
    /\ m[2] = Captured(content, pats[r], p)

\* the matches from the k-th on can be given (rule, position) pairs that grow
\* strictly, rule first, from (lastR, lastP)
RECURSIVE CanPlace(_, _, _, _, _, _)
CanPlace(ms, content, pats, k, lastR, lastP) ==
    \/ k > Len(ms)
    \/ \E r \in 1..Len(pats), p \in 1..Len(content) :
        /\ r > lastR \/ (r = lastR /\ p > lastP)
        /\ OccursAt(ms[k], content, pats, r, p)
        /\ CanPlace(ms, content, pats, k + 1, r, p)

RuleThenOccurrenceOrder(ms, content, pats) == CanPlace(ms, content, pats, 1, 0, 0)

C5_MatchOrderKept ==
    /\ InCall =>
         \A n \in 1..Len(NewFindings) :
            \E k \in 1..Len(visited) :
                /\ visited[k].repo = NewFindings[n].repo
                /\ visited[k].file.path = NewFindings[n].file_path
                /\ RuleThenOccurrenceOrder(NewFindings[n].matches, visited[k].content, patterns)
    /\ Len(ReportMatches) <= Len(results)
    /\ \A n \in 1..Len(ReportMatches) : ReportMatches[n] = results[n].matches
    /\ (ReportWritten /\ savedLen > 0) => Len(ReportMatches) = savedLen

C5_Witness ==
    /\ pc = "returned"
    /\ Len(NewFindings) = 1
    /\ Len(NewFindings[1].matches) = 3
    /\ NewFindings[1].matches[1][1] # NewFindings[1].matches[2][1]
    /\ NewFindings[1].matches[2][2] # NewFindings[1].matches[3][2]
    /\ ReportWritten
    /\ Len(ReportMatches) = 1
    /\ Len(ReportMatches[1]) = 3

(***************************************************************************)
(* C7.  A save_results that finds no Finding writes the header and the     *)
(* "No matches found." marker and nothing else, and leaves the file        *)
(* closed; one that finds Findings never writes the marker.                *)
(***************************************************************************)
C7_EmptyReportMarked ==
    /\ (savedLen = 0 /\ pc # "save") => file = <<Title, Generated, Delimiter, Marker>>
    /\ savedLen > 0 => \A k \in 1..Len(file) : file[k][1] # Marker[1]
    /\ savedLen >= 0 => IsPrefix(<<Title, Generated, Delimiter>>, file)
    /\ pc # "save" => ~fileOpen

C7_Witness ==
    /\ savedLen = 0
    /\ pc = "idle"
    /\ calls >= 1
    /\ fetches = 0
    /\ file[Len(file)] = Marker

(***************************************************************************)
(* C8.  Every content fetch, whatever its outcome, is followed by the      *)
(* sleep of line 199 before scrape does anything else.                     *)
(***************************************************************************)
C8_DelayAfterEveryFetch == undelayed => pc = "sleep"

\* the part of C8 the code keeps: within one scrape call, the sleep has been
\* taken before the next fetch or code search is made
DelayBetweenFetches == (pc \in {"find", "fetch"} /\ visited # <<>>) => ~undelayed

(***************************************************************************)
(* C9.  A scrape call searches the repositories in the order of the        *)
(* resolved list and fetches the files of each in the order returned; the  *)
(* Findings it appends, and the blocks of the report, are in that order.   *)
(***************************************************************************)
C9_ProcessingOrderKept ==
    /\ InCall =>
        /\ IsPrefix([k \in 1..Len(findLog) |-> findLog[k].repo], all_repos)
        /\ IsPrefix([k \in 1..Len(visited) |-> <<visited[k].repo, visited[k].file>>], ProcessOrder)
        /\ \A n \in 1..Len(NewFindings) :
             \E q \in 1..Len(ProcessOrder) :
                ProcessOrder[q][1] = NewFindings[n].repo
                    /\ ProcessOrder[q][2].path = NewFindings[n].file_path
        /\ \A m, n \in 1..Len(NewFindings) :
             m < n => PosOf(NewFindings[m]) < PosOf(NewFindings[n])
    /\ Len(RepoLines) = Len(FileLines)
    /\ Len(RepoLines) <= Len(results)
    /\ \A n \in 1..Len(RepoLines) :
         RepoLines[n][2] = results[n].repo /\ FileLines[n][2] = results[n].file_path
    /\ (ReportWritten /\ savedLen > 0) => Len(RepoLines) = savedLen

C9_Witness ==
    /\ ReportWritten
    /\ savedLen = 2
    /\ Len(RepoLines) = 2
    /\ pc = "idle"

C9_WitnessTwoRepositories ==
    /\ pc = "returned"
    /\ Len(NewFindings) = 2
    /\ NewFindings[1].repo # NewFindings[2].repo

(***************************************************************************)
(* C10.  Every step leaves results unchanged or appends one Finding at its *)
(* end, and only the file loop of scrape appends; results as it was when a *)
(* scrape call began is a prefix of results throughout the call, so a call *)
(* never resets it.                                                        *)
(***************************************************************************)
AppendOrSame ==
    \/ results' = results
    \/ /\ Len(results') = Len(results) + 1
       /\ SubSeq(results', 1, Len(results)) = results
       /\ pc = "fetch"

C10_AppendOnly ==
    [][/\ AppendOrSame
       /\ pc' \in {"find", "fetch", "sleep", "returned", "raised"} => IsPrefix(results0', results')
       /\ pc = "idle" => results0' = results \/ pc' \notin {"find", "returned"}]_vars

C10_Witness ==
    /\ calls = 2
    /\ pc = "returned"
    /\ Len(results0) = 1
    /\ Len(results) = 2

(***************************************************************************)
(* C6.  A rule whose pattern does not compile adds no Match and raises     *)
(* nothing, and the other rules of the list, before and after it, yield    *)
(* the Matches they yield without it.                                      *)
(***************************************************************************)
MatchesOfRules(content, rules) ==
    Flatten([k \in 1..Len(rules) |->
                [j \in 1..Len(FindAll(content, rules[k])) |->
                    <<rules[k], FindAll(content, rules[k])[j]>>]])

C6_MalformedRuleSkipped ==
    evPc = "evaluated" =>
        /\ ~evOut.raised
        /\ \A k \in 1..Len(evOut.matches) : Compiles(evOut.matches[k][1])
        /\ evOut.matches = MatchesOfRules(evContent, SelectSeq(evPatterns, Compiles))

C6_Witness ==
    /\ evPc = "evaluated"
    /\ Len(evPatterns) = 2
    /\ ~Compiles(evPatterns[1])
    /\ Compiles(evPatterns[2])
    /\ Len(evOut.matches) >= 2

====
